---- MODULE Spec2Model ----
(***************************************************************************)
(* Model of the nagios plugin check_resources.py                           *)
(* (src/src/files/plugins/check_resources.py).                             *)
(*                                                                         *)
(* Python strings are sequences of one-character strings, so that          *)
(* str.format, str.split, str.join and the ordering of strings are         *)
(* computed character by character as Python computes them.  Python's None *)
(* is the value None below, which is no string.                            *)
(***************************************************************************)
EXTENDS Integers, Sequences, FiniteSets, TLC

VARIABLES
    pc,             \* position of the process: see Next / NextResults
    args,           \* argparse namespace: resource, all, id, skip_id, select
    params,         \* check's parameters: resource_type, ids, skip, select,
                    \* check_all
    connected,      \* openstack.connect(...) has been called
    resources,      \* records the enumeration generator has produced so far
    checked_ids,    \* check: checked_ids
    yielded,        \* history: the records _resource_filter has yielded
    todo_ids,       \* check: ids the loop `for id_ in ids` has still to visit
    results,        \* the Results object
    calls,          \* history: the arguments of every add_result call so far
    outcome         \* what nagios_output / parser.error / try_check ended with

vars == <<pc, args, params, connected, resources, checked_ids, yielded,
          todo_ids, results, calls, outcome>>

-----------------------------------------------------------------------------
(* Bounds of the model. *)

\* longest enumeration the cloud returns in a run of check
MaxRes == 2

\* most add_result calls made on one Results object under SpecResults
MaxCalls == 3

-----------------------------------------------------------------------------
(* Python values. *)

\* Python's None: a value different from every string
None == <<"<None>">>

\* the characters chr(32) .. chr(126), in code point order (the double quote,
\* the backslash and the back quote, which no string of the model holds, are
\* written by name)
Printable ==
    <<" ", "!", "dquote", "#", "$", "%", "&", "'", "(", ")", "*", "+", ",",
      "-", ".", "/", "0", "1", "2", "3", "4", "5", "6", "7", "8", "9", ":", ";",
      "<", "=", ">", "?", "@", "A", "B", "C", "D", "E", "F", "G", "H", "I",
      "J", "K", "L", "M", "N", "O", "P", "Q", "R", "S", "T", "U", "V", "W",
      "X", "Y", "Z", "[", "bslash", "]", "^", "_", "bquote", "a", "b", "c",
      "d", "e", "f", "g", "h", "i", "j", "k", "l", "m", "n", "o", "p", "q",
      "r", "s", "t", "u", "v", "w", "x", "y", "z", "{", "|", "}", "~">>

\* ord(c) of the printable characters, as a table
OrdTable ==
    [c \in {Printable[i] : i \in DOMAIN Printable} |->
        31 + (CHOOSE i \in DOMAIN Printable : Printable[i] = c)]

\* ord(c) of a printable character
Ord(c) == OrdTable[c]

\* the positions at which both s and t have a character and these differ
DiffAt(s, t) == {i \in DOMAIN s \cap DOMAIN t : s[i] # t[i]}

\* s < t on Python strings: by the code points at the first difference, a
\* proper prefix first
StrLt(s, t) ==
    LET diff == DiffAt(s, t)
        d == CHOOSE i \in diff : \A j \in diff : i <= j
    IN  IF diff = {} THEN Len(s) < Len(t) ELSE Ord(s[d]) < Ord(t[d])

\* a < b on the tuples (exit_code, message)
TupleLt(a, b) == a[1] < b[1] \/ (a[1] = b[1] /\ StrLt(a[2], b[2]))

\* str(n) of a natural number
RECURSIVE StrInt(_)
StrInt(n) ==
    IF n < 10 THEN <<Printable[17 + n]>>
    ELSE StrInt(n \div 10) \o <<Printable[17 + (n % 10)]>>

\* what "{}".format(v) renders: the string itself, "None" for None
Fmt(v) == IF v = None THEN <<"N", "o", "n", "e">> ELSE v

\* sep.join(parts)
RECURSIVE Join(_, _)
Join(sep, parts) ==
    IF parts = <<>> THEN <<>>
    ELSE IF Len(parts) = 1 THEN parts[1]
    ELSE parts[1] \o sep \o Join(sep, Tail(parts))

\* the list `seq` with x placed behind every element that is not below it
RECURSIVE InsertDesc(_, _)
InsertDesc(x, seq) ==
    IF seq = <<>> THEN <<x>>
    ELSE IF TupleLt(Head(seq), x) THEN <<x>> \o seq
    ELSE <<Head(seq)>> \o InsertDesc(x, Tail(seq))

\* mutant of SortedReverse: sorted(seq), the reverse=True forgotten
RECURSIVE SortedAscending(_)
SortedAscending(seq) ==
    IF seq = <<>> THEN <<>>
    ELSE LET d == InsertDesc(seq[Len(seq)],
                     [i \in 1..(Len(seq) - 1) |->
                         SortedAscending(SubSeq(seq, 1, Len(seq) - 1))
                             [Len(seq) - i]])
         IN  [i \in 1..Len(d) |-> d[Len(d) + 1 - i]]

\* sorted(seq, reverse=True): descending and stable
RECURSIVE SortedReverse(_)
SortedReverse(seq) ==
    IF seq = <<>> THEN <<>>
    ELSE InsertDesc(seq[Len(seq)], SortedReverse(SubSeq(seq, 1, Len(seq) - 1)))

\* getattr(resource, key, default)
getattr(resource, key, default) ==
    IF key \in DOMAIN resource THEN resource[key] ELSE default

-----------------------------------------------------------------------------
(* Module constants. *)

NAGIOS_STATUS_OK == 0
NAGIOS_STATUS_WARNING == 1
NAGIOS_STATUS_CRITICAL == 2
NAGIOS_STATUS_UNKNOWN == 3

ACTIVE == <<"A", "C", "T", "I", "V", "E">>
DOWN == <<"D", "O", "W", "N">>
ERROR == <<"E", "R", "R", "O", "R">>
UNKNOWN == <<"U", "N", "K", "N", "O", "W", "N">>

server == <<"s", "e", "r", "v", "e", "r">>
port == <<"p", "o", "r", "t">>
floating_ip == <<"f", "l", "o", "a", "t", "i", "n", "g", "-", "i", "p">>
network == <<"n", "e", "t", "w", "o", "r", "k">>
subnet == <<"s", "u", "b", "n", "e", "t">>
security_group ==
    <<"s", "e", "c", "u", "r", "i", "t", "y", "-", "g", "r", "o", "u", "p">>
volume == <<"v", "o", "l", "u", "m", "e">>

\* the keys of RESOURCES
RESOURCES == {network, floating_ip, server, port, security_group, subnet}

RESOURCES_BY_EXISTENCE == {security_group, subnet, network}

\* "{}/{} passed" etc., formatted with (n, total)
OK_MESSAGE(n, total) ==
    StrInt(n) \o <<"/">> \o StrInt(total) \o <<" ", "p", "a", "s", "s", "e", "d">>
WARNING_MESSAGE(n, total) ==
    StrInt(n) \o <<"/">> \o StrInt(total)
        \o <<" ", "i", "n", " ", "U", "N", "K", "N", "O", "W", "N">>
DOWN_MESSAGE(n, total) ==
    StrInt(n) \o <<"/">> \o StrInt(total)
        \o <<" ", "a", "r", "e", " ", "D", "O", "W", "N">>
NOT_FOUND_MESSAGE(n, total) ==
    StrInt(n) \o <<"/">> \o StrInt(total)
        \o <<" ", "w", "e", "r", "e", " ", "n", "o", "t", " ", "f", "o", "u", "n", "d">>

-----------------------------------------------------------------------------
(* class Results *)

\* mutant of NewResults: exit_code starts at UNKNOWN instead of 0
NewResults_unknown ==
    [exit_code |-> NAGIOS_STATUS_UNKNOWN, ok |-> <<>>, warning |-> <<>>,
     critical |-> <<>>, not_found |-> <<>>, _messages |-> <<>>]

\* Results.__init__
NewResults ==
    [exit_code |-> 0, ok |-> <<>>, warning |-> <<>>, critical |-> <<>>,
     not_found |-> <<>>, _messages |-> <<>>]

\* "{} '{}' is in {} status".format(type_, id_, status)
StatusMessage(type_, id_, status) ==
    Fmt(type_) \o <<" ", "'">> \o Fmt(id_)
        \o <<"'", " ", "i", "s", " ", "i", "n", " ">> \o Fmt(status)
        \o <<" ", "s", "t", "a", "t", "u", "s">>

\* "{} '{}' exists".format(type_, id_)
ExistsMessage(type_, id_) ==
    Fmt(type_) \o <<" ", "'">> \o Fmt(id_)
        \o <<"'", " ", "e", "x", "i", "s", "t", "s">>

\* "{} '{}' was not found".format(type_, id_)
NotFoundMessage(type_, id_) ==
    Fmt(type_) \o <<" ", "'">> \o Fmt(id_)
        \o <<"'", " ", "w", "a", "s", " ", "n", "o", "t", " ", "f", "o", "u", "n", "d">>

\* `not status`: None and the empty string are falsy
Falsy(status) == status = None \/ status = <<>>

\* mutant of Branch: the test of `exists` made before the tests of status
Branch_existsFirst(type_, status, exists) ==
    IF ~exists THEN "not_found"
    ELSE IF status = ACTIVE THEN "active"
    ELSE IF status = DOWN THEN "down"
    ELSE IF Falsy(status) /\ type_ \in RESOURCES_BY_EXISTENCE THEN "exists"
    ELSE "other"

\* the branch of the if/elif chain of add_result that is taken
Branch(type_, status, exists) ==
    IF status = ACTIVE THEN "active"
    ELSE IF status = DOWN THEN "down"
    ELSE IF Falsy(status) /\ exists /\ type_ \in RESOURCES_BY_EXISTENCE
        THEN "exists"
    ELSE IF ~exists THEN "not_found"
    ELSE "other"

\* mutant of NewExitCode: self.exit_code = exit_code, the max forgotten
NewExitCode_last(exit_code, self) == exit_code

\* self.exit_code = max(exit_code, self.exit_code)
NewExitCode(exit_code, self) ==
    IF self.exit_code > exit_code THEN self.exit_code ELSE exit_code

\* Results.add_result: the object after the call
add_result(self, type_, id_, status, exists) ==
    LET b == Branch(type_, status, exists)
        exit_code ==
            CASE b = "active" -> NAGIOS_STATUS_OK
              [] b = "down" -> NAGIOS_STATUS_CRITICAL
              [] b = "exists" -> NAGIOS_STATUS_OK
              [] b = "not_found" -> NAGIOS_STATUS_CRITICAL
              [] b = "other" -> NAGIOS_STATUS_WARNING
        message ==
            CASE b \in {"active", "down", "other"} ->
                    StatusMessage(type_, id_, status)
              [] b = "exists" -> ExistsMessage(type_, id_)
              [] b = "not_found" -> NotFoundMessage(type_, id_)
    IN  [ok |-> IF b \in {"active", "exists"}
                THEN Append(self.ok, id_) ELSE self.ok,
         critical |-> IF b = "down"
                THEN Append(self.critical, id_) ELSE self.critical,
         not_found |-> IF b = "not_found"
                THEN Append(self.not_found, id_) ELSE self.not_found,
         warning |-> IF b = "other"
                THEN Append(self.warning, id_) ELSE self.warning,
         exit_code |-> NewExitCode(exit_code, self),
         _messages |-> Append(self._messages, <<exit_code, message>>)]

\* Results.messages
messages(self) ==
    LET s == SortedReverse(self._messages)
    IN  [i \in 1..Len(s) |-> s[i][2]]

\* Results.count
count(self) == Len(self._messages)

-----------------------------------------------------------------------------
(* Reporting. *)

\* os.linesep
linesep == <<"\n">>

\* mutant of _create_title: the DOWN summary placed before the not-found one
_create_title_downFirst(resource, res) ==
    LET t1 == IF res.not_found # <<>>
              THEN <<NOT_FOUND_MESSAGE(Len(res.not_found), count(res))>>
              ELSE <<>>
        t2 == IF res.critical # <<>>
              THEN <<DOWN_MESSAGE(Len(res.critical), count(res))>>
              ELSE <<>>
        t3 == IF res.warning # <<>>
              THEN <<WARNING_MESSAGE(Len(res.warning), count(res))>>
              ELSE <<>>
        t4 == IF res.ok # <<>>
              THEN <<OK_MESSAGE(Len(res.ok), count(res))>>
              ELSE <<>>
        titles == t2 \o t1 \o t3 \o t4
    IN  Fmt(resource) \o <<"s", " ">> \o Join(<<",", " ">>, titles)

\* _create_title(resource, results)
_create_title(resource, res) ==
    LET t1 == IF res.not_found # <<>>
              THEN <<NOT_FOUND_MESSAGE(Len(res.not_found), count(res))>>
              ELSE <<>>
        t2 == IF res.critical # <<>>
              THEN <<DOWN_MESSAGE(Len(res.critical), count(res))>>
              ELSE <<>>
        t3 == IF res.warning # <<>>
              THEN <<WARNING_MESSAGE(Len(res.warning), count(res))>>
              ELSE <<>>
        t4 == IF res.ok # <<>>
              THEN <<OK_MESSAGE(Len(res.ok), count(res))>>
              ELSE <<>>
        titles == t1 \o t2 \o t3 \o t4
    IN  Fmt(resource) \o <<"s", " ">> \o Join(<<",", " ">>, titles)

\* mutant of nagios_output: a WARNING result reported like an OK one
nagios_output_warningAsOk(resource, res) ==
    LET title == _create_title(resource, res)
        output == title \o linesep \o Join(linesep, messages(res))
    IN  IF res.exit_code \in {NAGIOS_STATUS_OK, NAGIOS_STATUS_WARNING}
        THEN [kind |-> "print",
              text |-> <<"O", "K", ":", " ", " ">> \o output]
        ELSE [kind |-> "CriticalError",
              text |-> <<"C", "R", "I", "T", "I", "C", "A", "L", ":", " ">>
                          \o output]

\* nagios_output(resource, results): what is printed (kind "print") or the
\* exception that is raised (kind = the exception's class)
nagios_output(resource, res) ==
    LET title == _create_title(resource, res)
        output == title \o linesep \o Join(linesep, messages(res))
    IN  IF res.exit_code = NAGIOS_STATUS_OK
        THEN [kind |-> "print",
              text |-> <<"O", "K", ":", " ", " ">> \o output]
        ELSE IF res.exit_code = NAGIOS_STATUS_WARNING
        THEN [kind |-> "WarnError",
              text |-> <<"W", "A", "R", "N", "I", "N", "G", ":", " ">>
                          \o output]
        ELSE IF res.exit_code = NAGIOS_STATUS_CRITICAL
        THEN [kind |-> "CriticalError",
              text |-> <<"C", "R", "I", "T", "I", "C", "A", "L", ":", " ">>
                          \o output]
        ELSE IF res.exit_code = NAGIOS_STATUS_UNKNOWN
        THEN [kind |-> "UnknownError",
              text |-> <<"U", "N", "K", "N", "O", "W", "N", ":", " ">>
                          \o output]
        ELSE [kind |-> "UnknownError",
              text |-> <<"U", "N", "K", "N", "O", "W", "N", ":", " ", "n", "o",
                         "t", " ", "v", "a", "l", "i", "d", " ", "e", "x", "i",
                         "t", "_", "c", "o", "d", "e", " ">>
                          \o StrInt(res.exit_code) \o <<" ">> \o output]

\* nagios_plugin3.try_check: the exit status of the process for what check
\* printed or raised
try_check(raised) ==
    [kind |-> raised.kind, text |-> raised.text,
     exit |-> CASE raised.kind = "print" -> 0
                [] raised.kind = "WarnError" -> 1
                [] raised.kind = "CriticalError" -> 2
                [] raised.kind = "UnknownError" -> 3]

-----------------------------------------------------------------------------
(* The Results object on its own: add_result called with any arguments.   *)

\* resource ids used in the model
Ids == {<<"a">>, <<"b">>}

\* values passed as status: absent (None), empty, ACTIVE, DOWN, another one
Statuses == {None, <<>>, ACTIVE, DOWN, ERROR}

NoParams(rt) ==
    [resource_type |-> rt, ids |-> {}, skip |-> {}, select |-> <<>>,
     check_all |-> FALSE]

InitResults ==
    /\ pc = "results"
    /\ args = [resource |-> <<>>, all |-> FALSE, id |-> <<>>,
               skip_id |-> <<>>, select |-> <<>>]
    /\ \E rt \in {server, subnet} : params = NoParams(rt)
    /\ connected = FALSE
    /\ resources = <<>>
    /\ checked_ids = <<>>
    /\ yielded = <<>>
    /\ todo_ids = {}
    /\ results = NewResults
    /\ calls = <<>>
    /\ outcome = [kind |-> "none"]

\* one call results.add_result(type_, id_, status, exists)
CallAddResult(type_, id_, status, exists) ==
    /\ results' = add_result(results, type_, id_, status, exists)
    /\ calls' = Append(calls, [type_ |-> type_, id_ |-> id_,
                               status |-> status, exists |-> exists])

AnyAddResult ==
    /\ pc = "results"
    /\ Len(calls) < MaxCalls
    /\ \E id_ \in Ids, status \in Statuses, exists \in BOOLEAN :
          CallAddResult(params.resource_type, id_, status, exists)
    /\ UNCHANGED <<pc, args, params, connected, resources, checked_ids,
                   yielded, todo_ids, outcome>>

NextResults == AnyAddResult

SpecResults == InitResults /\ [][NextResults]_vars

-----------------------------------------------------------------------------
(* The command: parse_arguments, then check under try_check.               *)

\* attribute names of the records the cloud returns
id_attr == <<"i", "d">>
status_attr == <<"s", "t", "a", "t", "u", "s">>
zone_attr == <<"z", "o", "n", "e">>

\* marks an attribute that a record does not carry
Absent == <<"<absent>">>

\* a record with the given id and, unless Absent, status and zone attributes
Record(i, s, z) ==
    [k \in {id_attr} \cup (IF s = Absent THEN {} ELSE {status_attr})
                     \cup (IF z = Absent THEN {} ELSE {zone_attr}) |->
        IF k = id_attr THEN i ELSE IF k = status_attr THEN s ELSE z]

\* the records RESOURCES[resource_type](connection) may produce: servers
\* carry an optional status and an optional zone, the other types an
\* optional status
CloudRecords(resource_type) ==
    IF resource_type = server
    THEN {Record(i, s, z) : i \in Ids, s \in {Absent, ACTIVE, DOWN, ERROR},
                            z \in {Absent, <<"x">>}}
    ELSE {Record(i, s, Absent) : i \in Ids,
                                 s \in {Absent, ACTIVE, DOWN, ERROR}}

\* the command lines of the model
ResourceArgs == {server, subnet, network, volume}
IdArgs == {<<>>, <<<<"a">>>>, <<<<"b">>>>, << <<"a">>, <<"b">> >>}
SkipIdArgs == {<<>>, <<<<"a">>>>}
SelectArgs ==
    {<<>>,
     << <<"z", "o", "n", "e", "=", "x">> >>,
     << <<"z", "o", "n", "e", "=", "y">> >>,
     << <<"z", "o", "n", "e", "=", "x">>,
        <<"s", "t", "a", "t", "u", "s", "=", "A", "C", "T", "I", "V", "E">> >>,
     << <<"z", "o", "n", "e">> >>}

\* set(list)
ToSet(list) == {list[i] : i \in DOMAIN list}

\* arg.split("=", 1)
Split1(arg) ==
    IF \E i \in DOMAIN arg : arg[i] = "="
    THEN LET i == CHOOSE i \in DOMAIN arg :
                     arg[i] = "=" /\ \A j \in 1..(i - 1) : arg[j] # "="
         IN  <<SubSeq(arg, 1, i - 1), SubSeq(arg, i + 1, Len(arg))>>
    ELSE <<arg>>

\* dict(pairs): the last pair of a key wins; defined when every element
\* has two items
Dict(pairs) ==
    [k \in {pairs[i][1] : i \in DOMAIN pairs} |->
        LET last == CHOOSE i \in DOMAIN pairs :
                        /\ pairs[i][1] = k
                        /\ \A j \in DOMAIN pairs : pairs[j][1] = k => j <= i
        IN  pairs[last][2]]

\* parse_arguments, after parser.parse_args(): the parser.error that is
\* reached ("none" when none is), in the order of the code
ParserError(a) ==
    IF a.resource \notin RESOURCES THEN "resource is not supported"
    ELSE IF a.all /\ a.resource \in RESOURCES_BY_EXISTENCE
        THEN "flag '--all' is not supported with resource"
    ELSE IF a.all /\ a.id # <<>> THEN "--all/--id' are mutually exclusive"
    ELSE IF ~a.all /\ a.id = <<>>
        THEN "at least one of --all/--id' parameters must be entered"
    ELSE IF ~a.all /\ a.skip_id # <<>>
        THEN "'--skip-id' must be used with '--all'"
    ELSE IF ~a.all /\ a.select # <<>>
        THEN "'--select' must be used with '--all'"
    ELSE "none"

\* the return statement of parse_arguments raises ValueError when dict() is
\* given an element that has not two items
ReturnRaises(a) == \E i \in DOMAIN a.select : Len(Split1(a.select[i])) # 2

\* the tuple parse_arguments returns
ReturnValue(a) ==
    [resource_type |-> a.resource,
     ids |-> ToSet(a.id),
     skip |-> ToSet(a.skip_id),
     select |-> Dict([i \in DOMAIN a.select |-> Split1(a.select[i])]),
     check_all |-> a.all]

Init ==
    /\ pc = "main"
    /\ args \in [resource : ResourceArgs, all : BOOLEAN, id : IdArgs,
                 skip_id : SkipIdArgs, select : SelectArgs]
    /\ params = NoParams(<<>>)
    /\ connected = FALSE
    /\ resources = <<>>
    /\ checked_ids = <<>>
    /\ yielded = <<>>
    /\ todo_ids = {}
    /\ results = NewResults
    /\ calls = <<>>
    /\ outcome = [kind |-> "none"]

\* main: args = parse_arguments()
ParseArguments ==
    /\ pc = "main"
    /\ IF ParserError(args) # "none"
       THEN /\ pc' = "exit"
            /\ outcome' = [kind |-> "usage_error",
                           text |-> ParserError(args), exit |-> 2]
            /\ UNCHANGED params
       ELSE IF ReturnRaises(args)
       THEN /\ pc' = "exit"
            /\ outcome' = [kind |-> "ValueError", text |-> "", exit |-> 1]
            /\ UNCHANGED params
       ELSE /\ pc' = "check"
            /\ params' = ReturnValue(args)
            /\ UNCHANGED outcome
    /\ UNCHANGED <<args, connected, resources, checked_ids, yielded,
                   todo_ids, results, calls>>

\* check: results = Results(); connection = openstack.connect(...);
\* resources = RESOURCES[resource_type](connection); checked_ids = []
Connect ==
    /\ pc = "check"
    /\ pc' = "filter"
    /\ results' = NewResults
    /\ connected' = TRUE
    /\ resources' = <<>>
    /\ checked_ids' = <<>>
    /\ UNCHANGED <<args, params, yielded, todo_ids, calls, outcome>>

\* _resource_filter, the select loop of one resource: the keys whose
\* mismatch is logged.  Its `continue` continues this loop.
SelectLoop(resource, select) ==
    {key \in DOMAIN select : getattr(resource, key, None) # select[key]}

\* mutant of Yields: the test `resource.id not in ids` left out
Yields_anyId(resource, ids, skip, check_all, select) ==
    IF check_all /\ resource[id_attr] \in skip THEN FALSE ELSE TRUE

\* mutant of Yields: the test `resource.id in skip` left out
Yields_noSkip(resource, ids, skip, check_all, select) ==
    IF ~check_all /\ resource[id_attr] \notin ids THEN FALSE ELSE TRUE

\* _resource_filter: whether the generator yields `resource`
Yields(resource, ids, skip, check_all, select) ==
    IF ~check_all /\ resource[id_attr] \notin ids THEN FALSE
    ELSE IF check_all /\ resource[id_attr] \in skip THEN FALSE
    ELSE IF check_all
        THEN LET logged == SelectLoop(resource, select) IN TRUE
    ELSE TRUE

\* mutant of PassedStatus: the record's status passed for every type
PassedStatus_always(resource_type, resource) ==
    getattr(resource, status_attr, UNKNOWN)

\* check, the body of the first loop: the status passed to add_result
PassedStatus(resource_type, resource) ==
    IF resource_type \notin RESOURCES_BY_EXISTENCE
    THEN getattr(resource, status_attr, UNKNOWN)
    ELSE None

\* check, one round of `for resource in _resource_filter(...)`: the cloud
\* produces its next record, which is filtered and, if yielded, checked
FilterNext ==
    /\ pc = "filter"
    /\ Len(resources) < MaxRes
    /\ \E resource \in CloudRecords(params.resource_type) :
          /\ resources' = Append(resources, resource)
          /\ IF Yields(resource, params.ids, params.skip, params.check_all,
                       params.select)
             THEN /\ yielded' = Append(yielded, resource)
                  /\ checked_ids' = Append(checked_ids, resource[id_attr])
                  /\ CallAddResult(params.resource_type, resource[id_attr],
                        PassedStatus(params.resource_type, resource), TRUE)
             ELSE UNCHANGED <<yielded, checked_ids, results, calls>>
    /\ UNCHANGED <<pc, args, params, connected, todo_ids, outcome>>

\* check: the enumeration is exhausted, the first loop ends
FilterEnd ==
    /\ pc = "filter"
    /\ pc' = "not_found"
    /\ todo_ids' = params.ids
    /\ UNCHANGED <<args, params, connected, resources, checked_ids, yielded,
                   results, calls, outcome>>

\* check, one round of `for id_ in ids` (a set: any order)
NotFoundNext ==
    /\ pc = "not_found"
    /\ \E id_ \in todo_ids :
          /\ todo_ids' = todo_ids \ {id_}
          /\ IF \A i \in DOMAIN checked_ids : checked_ids[i] # id_
             THEN CallAddResult(params.resource_type, id_, None, FALSE)
             ELSE UNCHANGED <<results, calls>>
    /\ UNCHANGED <<pc, args, params, connected, resources, checked_ids,
                   yielded, outcome>>

\* check: nagios_output(resource_type, results), under try_check
Report ==
    /\ pc = "not_found"
    /\ todo_ids = {}
    /\ pc' = "exit"
    /\ outcome' = try_check(nagios_output(params.resource_type, results))
    /\ UNCHANGED <<args, params, connected, resources, checked_ids, yielded,
                   todo_ids, results, calls>>

Next ==
    \/ ParseArguments
    \/ Connect
    \/ FilterNext
    \/ FilterEnd
    \/ NotFoundNext
    \/ Report

Spec == Init /\ [][Next]_vars

-----------------------------------------------------------------------------
(* Properties of the Results object (checked under SpecResults).           *)

\* the largest severity among the entries, 0 when there is none
MaxSeverity(entries) ==
    IF entries = <<>> THEN 0
    ELSE CHOOSE m \in {entries[i][1] : i \in DOMAIN entries} :
             \A i \in DOMAIN entries : entries[i][1] <= m

\* C1: after any sequence of add_result calls on a fresh Results object,
\* exit_code is the maximum severity over the entries added so far (0 when
\* none was added), with OK(0) < WARNING(1) < CRITICAL(2); so once a CRITICAL
\* entry is in, exit_code is CRITICAL whatever follows.
C1_ExitCodeIsMaxSeverity ==
    /\ results.exit_code = MaxSeverity(results._messages)
    /\ Len(results._messages) = Len(calls)

\* C1 witness: a CRITICAL entry followed by an OK entry, exit_code CRITICAL
C1_Witness ==
    /\ pc = "results"
    /\ Len(results._messages) >= 2
    /\ results._messages[1][1] = NAGIOS_STATUS_CRITICAL
    /\ results._messages[2][1] = NAGIOS_STATUS_OK
    /\ results.exit_code = NAGIOS_STATUS_CRITICAL

\* the entry the priority order asks for, for a call with arguments c;
\* noStatus says whether c counts as a call with no status present
PriorityEntry(c, noStatus) ==
    IF c.status = ACTIVE
        THEN <<NAGIOS_STATUS_OK, StatusMessage(c.type_, c.id_, c.status)>>
    ELSE IF c.status = DOWN
        THEN <<NAGIOS_STATUS_CRITICAL,
               StatusMessage(c.type_, c.id_, c.status)>>
    ELSE IF noStatus /\ c.exists /\ c.type_ \in RESOURCES_BY_EXISTENCE
        THEN <<NAGIOS_STATUS_OK, ExistsMessage(c.type_, c.id_)>>
    ELSE IF ~c.exists
        THEN <<NAGIOS_STATUS_CRITICAL, NotFoundMessage(c.type_, c.id_)>>
    ELSE <<NAGIOS_STATUS_WARNING, StatusMessage(c.type_, c.id_, c.status)>>

\* every call added exactly one entry, and one id to exactly one list
OneEntryPerCall ==
    /\ Len(results._messages) = Len(calls)
    /\ Len(results.ok) + Len(results.warning) + Len(results.critical)
           + Len(results.not_found) = Len(calls)
    /\ \A i \in DOMAIN results._messages :
           results._messages[i][1] # NAGIOS_STATUS_UNKNOWN

\* C2 as stated: add_result adds exactly one entry per call, whose severity
\* follows the priority order ACTIVE -> OK, DOWN -> CRITICAL, no status
\* present (status absent) and exists and existence-only type -> OK
\* 'exists', not exists -> CRITICAL 'was not found', else WARNING; never
\* UNKNOWN.
C2_PriorityOrder_AsStated ==
    /\ OneEntryPerCall
    /\ \A i \in DOMAIN calls :
           results._messages[i] = PriorityEntry(calls[i], calls[i].status = None)

\* C2 amended: the same, where the third rule also takes the empty string
\* for "no status" (the code tests `not status`).
C2_PriorityOrder ==
    /\ OneEntryPerCall
    /\ \A i \in DOMAIN calls :
           results._messages[i] =
               PriorityEntry(calls[i],
                             calls[i].status = None \/ calls[i].status = <<>>)

\* C2 witness: an empty status on an existing resource of an existence-only
\* type was added as OK 'exists', and a not-found entry was added
C2_Witness ==
    /\ pc = "results"
    /\ \E i \in DOMAIN calls :
           /\ calls[i].status = <<>>
           /\ calls[i].exists
           /\ calls[i].type_ \in RESOURCES_BY_EXISTENCE
           /\ results._messages[i][1] = NAGIOS_STATUS_OK
    /\ \E i \in DOMAIN calls :
           /\ ~calls[i].exists
           /\ results._messages[i][1] = NAGIOS_STATUS_CRITICAL

\* the category of the i-th entry: by its severity, a CRITICAL entry being
\* not-found when its text is the not-found message of its call
EntryCategory(i) ==
    LET e == results._messages[i]
    IN  IF e[1] = NAGIOS_STATUS_OK THEN "ok"
        ELSE IF e[1] = NAGIOS_STATUS_WARNING THEN "warning"
        ELSE IF e[2] = NotFoundMessage(calls[i].type_, calls[i].id_)
            THEN "not_found"
        ELSE "critical"

CategoryCount(cat) ==
    Cardinality({i \in DOMAIN results._messages : EntryCategory(i) = cat})

\* the summaries of the non-empty categories in the order not-found,
\* critical, warning, ok
ExpectedSummaries ==
    LET total == Len(results._messages)
        nf == CategoryCount("not_found")
        cr == CategoryCount("critical")
        wa == CategoryCount("warning")
        ok == CategoryCount("ok")
        all == <<[n |-> nf, text |-> NOT_FOUND_MESSAGE(nf, total)],
                 [n |-> cr, text |-> DOWN_MESSAGE(cr, total)],
                 [n |-> wa, text |-> WARNING_MESSAGE(wa, total)],
                 [n |-> ok, text |-> OK_MESSAGE(ok, total)]>>
        kept == SelectSeq(all, LAMBDA x : x.n > 0)
    IN  [i \in DOMAIN kept |-> kept[i].text]

\* C9: the title is "<resourceType>s " followed by the summaries of the
\* categories that have at least one entry, joined by ", ", in the order
\* not-found, critical, warning, ok, each showing its count over the total.
C9_TitleSummaries ==
    _create_title(params.resource_type, results) =
        params.resource_type \o <<"s", " ">>
            \o Join(<<",", " ">>, ExpectedSummaries)

\* C9 witness: not-found, DOWN and ok entries are present, no warning one
C9_Witness ==
    /\ pc = "results"
    /\ CategoryCount("not_found") > 0
    /\ CategoryCount("critical") > 0
    /\ CategoryCount("ok") > 0
    /\ CategoryCount("warning") = 0

\* how often x occurs in seq
Occurrences(x, seq) == Cardinality({i \in DOMAIN seq : seq[i] = x})

\* the severity a message text was added with
SeverityOf(message) ==
    CHOOSE sev \in 0..3 :
        \E i \in DOMAIN results._messages :
            results._messages[i] = <<sev, message>>

\* C10: Results.messages lists every added message exactly once, no message
\* of a lower severity before one of a higher severity, and messages of
\* equal severity by text descending.
C10_MessagesMostSevereFirst ==
    LET m == messages(results)
        added == [i \in DOMAIN results._messages |-> results._messages[i][2]]
        sev == [i \in DOMAIN m |-> SeverityOf(m[i])]
    IN  /\ Len(m) = Len(calls)
        /\ \A i \in DOMAIN added :
               Occurrences(added[i], m) = Occurrences(added[i], added)
        /\ \A i, j \in DOMAIN m :
               i < j =>
                   /\ sev[i] >= sev[j]
                   /\ sev[i] = sev[j] => ~StrLt(m[i], m[j])

\* C10 witness: two WARNING entries were added, the lower text first, and
\* then a CRITICAL one; messages lists them in the opposite order
C10_Witness ==
    /\ pc = "results"
    /\ Len(results._messages) = 3
    /\ results._messages[1][1] = NAGIOS_STATUS_WARNING
    /\ results._messages[2][1] = NAGIOS_STATUS_WARNING
    /\ StrLt(results._messages[1][2], results._messages[2][2])
    /\ results._messages[3][1] = NAGIOS_STATUS_CRITICAL
    /\ messages(results) = <<results._messages[3][2], results._messages[2][2],
                             results._messages[1][2]>>

-----------------------------------------------------------------------------
(* Properties of the command (checked under Spec).                         *)

\* check has run to its end: nagios_output has reported
Completed == pc = "exit" /\ outcome.kind \notin {"usage_error", "ValueError"}

\* check is running or has run
InCheck == pc \in {"filter", "not_found"} \/ Completed

\* the ids of the records enumerated so far
EnumeratedIds == {resources[i][id_attr] : i \in DOMAIN resources}

\* the calls of add_result made for the id, found or not found
CallsFor(id_, exists) ==
    {i \in DOMAIN calls : calls[i].id_ = id_ /\ calls[i].exists = exists}

\* the run of the example: ids {a, b}, the cloud returns only a, ACTIVE
ExampleAB ==
    /\ Completed
    /\ ~params.check_all
    /\ params.ids = {<<"a">>, <<"b">>}
    /\ Len(resources) = 1
    /\ resources[1][id_attr] = <<"a">>
    /\ getattr(resources[1], status_attr, None) = ACTIVE

\* C3: in explicit-ID mode an enumerated resource gets an entry only if its
\* id is in ids; once check has completed, every id of ids that was not
\* enumerated has exactly one not-found CRITICAL entry and an id that was
\* enumerated has none; ids {a, b} with only a (ACTIVE) enumerated gives one
\* OK entry for a, one CRITICAL not-found entry for b and exit code 2.
C3_ExplicitIds ==
    (InCheck /\ ~params.check_all) =>
        /\ \A i \in DOMAIN calls :
               calls[i].exists =>
                   calls[i].id_ \in params.ids \cap EnumeratedIds
        /\ \A i \in DOMAIN calls :
               ~calls[i].exists =>
                   /\ calls[i].id_ \in params.ids \ EnumeratedIds
                   /\ Cardinality(CallsFor(calls[i].id_, FALSE)) = 1
                   /\ results._messages[i] =
                          <<NAGIOS_STATUS_CRITICAL,
                            NotFoundMessage(params.resource_type, calls[i].id_)>>
        /\ Completed =>
               \A id_ \in params.ids \ EnumeratedIds :
                   Cardinality(CallsFor(id_, FALSE)) = 1
        /\ ExampleAB =>
               /\ results.ok = << <<"a">> >>
               /\ results.not_found = << <<"b">> >>
               /\ count(results) = 2
               /\ results.exit_code = NAGIOS_STATUS_CRITICAL
               /\ outcome.kind = "CriticalError"
               /\ outcome.exit = 2

\* C3 witness: the run of the example has completed for a status-checked
\* type
C3_Witness ==
    /\ ExampleAB
    /\ params.resource_type = server
    /\ outcome.exit = 2

\* C4 as stated: in ALL mode a resource is yielded only if its id is not in
\* skip and, for every (key, value) of select, its attribute key equals
\* value (an absent attribute being a non-match).
C4_SelectExcludesMismatch ==
    (InCheck /\ params.check_all) =>
        \A i \in DOMAIN yielded :
            /\ yielded[i][id_attr] \notin params.skip
            /\ \A key \in DOMAIN params.select :
                   getattr(yielded[i], key, None) = params.select[key]

\* the entries of the run are those of the records that are not skipped, one
\* for each, in the order of the enumeration
EntriesAreTheUnskipped ==
    LET kept == SelectSeq(resources,
                          LAMBDA r : r[id_attr] \notin params.skip)
    IN  /\ Len(calls) = Len(kept)
        /\ \A i \in DOMAIN kept :
               /\ calls[i].id_ = kept[i][id_attr]
               /\ calls[i].exists

\* the ids in the lists of the Results object
ListedIds ==
    {results.ok[i] : i \in DOMAIN results.ok}
        \cup {results.warning[i] : i \in DOMAIN results.warning}
        \cup {results.critical[i] : i \in DOMAIN results.critical}
        \cup {results.not_found[i] : i \in DOMAIN results.not_found}

\* C5: in ALL mode no entry is added for a resource whose id is in the skip
\* set, whatever its status: it is in no list, no message and no count; and
\* with no select given every other enumerated resource has its entry.
C5_SkippedHasNoEntry ==
    (InCheck /\ params.check_all) =>
        /\ \A i \in DOMAIN calls : calls[i].id_ \notin params.skip
        /\ ListedIds \cap params.skip = {}
        /\ Len(results._messages) = Len(calls)
        /\ DOMAIN params.select = {} => EntriesAreTheUnskipped

\* C5 witness: --all --skip-id a; a was enumerated DOWN and b ACTIVE, and the
\* run ended OK with one entry
C5_Witness ==
    /\ Completed
    /\ params.check_all
    /\ params.skip = {<<"a">>}
    /\ \E i \in DOMAIN resources :
           /\ resources[i][id_attr] = <<"a">>
           /\ getattr(resources[i], status_attr, None) = DOWN
    /\ \E i \in DOMAIN resources : resources[i][id_attr] = <<"b">>
    /\ count(results) = 1
    /\ outcome.exit = 0

\* the severities of the entries
Severities == {results._messages[i][1] : i \in DOMAIN results._messages}

\* the run of the example: --all on server, one ACTIVE and one ERROR server
ExampleActiveError ==
    /\ Completed
    /\ params.check_all
    /\ params.resource_type = server
    /\ params.skip = {}
    /\ DOMAIN params.select = {}
    /\ Len(resources) = 2
    /\ getattr(resources[1], status_attr, None) = ACTIVE
    /\ getattr(resources[2], status_attr, None) = ERROR

C7_ExistenceOnlyIgnoresStatus ==
    (InCheck /\ params.resource_type \in RESOURCES_BY_EXISTENCE) =>
        LET wanted == SelectSeq(resources,
                                LAMBDA r : r[id_attr] \in params.ids)
        IN  /\ yielded = wanted
            /\ Len(calls) >= Len(wanted)
            /\ \A i \in DOMAIN wanted :
                   /\ calls[i].id_ = wanted[i][id_attr]
                   /\ results._messages[i] =
                          <<NAGIOS_STATUS_OK,
                            ExistsMessage(params.resource_type,
                                          wanted[i][id_attr])>>
                   /\ Occurrences(wanted[i][id_attr], results.ok)
                          = Occurrences(wanted[i][id_attr], checked_ids)

\* C7 witness: a requested subnet was enumerated with status DOWN and the
\* run ended OK
C7_Witness ==
    /\ Completed
    /\ params.resource_type = subnet
    /\ \E i \in DOMAIN yielded :
           getattr(yielded[i], status_attr, None) = DOWN
    /\ \E i \in DOMAIN yielded :
           getattr(yielded[i], status_attr, None) = ERROR
    /\ outcome.exit = 0

\* the combinations the claim says are accepted
StatedAsAccepted(a) ==
    /\ a.resource \in RESOURCES
    /\ a.all <=> a.id = <<>>
    /\ ~(a.all /\ a.resource \in RESOURCES_BY_EXISTENCE)
    /\ (a.skip_id # <<>> \/ a.select # <<>>) => a.all

\* C8 as stated: parse_arguments accepts a combination iff the type is
\* known, exactly one of --all and a non-empty --id list is given, --all is
\* not combined with an existence-only type and --skip-id/--select come
\* only with --all; every other combination ends in a usage error, before
\* any connection, enumeration or result entry.
C8_AcceptedIffValid ==
    pc # "main" =>
        /\ StatedAsAccepted(args) <=> outcome.kind \notin {"usage_error", "ValueError"}
        /\ ~StatedAsAccepted(args) =>
               /\ outcome.kind = "usage_error"
               /\ ~connected
               /\ resources = <<>>
               /\ calls = <<>>

\* a completed ALL-mode run in which no enumerated record survived the
\* filter: the enumeration was empty or every record's id is in skip
NothingSurvived ==
    /\ Completed
    /\ params.check_all
    /\ \A i \in DOMAIN resources : resources[i][id_attr] \in params.skip

\* C11: in ALL mode, when no resource survives the filter, check adds no
\* entry, the aggregate severity stays 0 and the run is reported as OK
\* (exit 0) with a title that holds no category summary.
C11_EmptyRunIsOk ==
    NothingSurvived =>
        /\ calls = <<>>
        /\ yielded = <<>>
        /\ count(results) = 0
        /\ results.exit_code = NAGIOS_STATUS_OK
        /\ outcome.kind = "print"
        /\ outcome.exit = 0
        /\ _create_title(params.resource_type, results)
               = params.resource_type \o <<"s", " ">>
        /\ outcome.text = <<"O", "K", ":", " ", " ">> \o params.resource_type
                              \o <<"s", " ">> \o linesep

\* C11 witness: --all --skip-id a, the cloud returned two records with id a,
\* one of them DOWN, and the run ended OK
C11_Witness ==
    /\ NothingSurvived
    /\ Len(resources) = 2
    /\ \E i \in DOMAIN resources :
           getattr(resources[i], status_attr, None) = DOWN
    /\ outcome.exit = 0

\* C11, the other case: the cloud returned nothing
C11_WitnessEmptyCloud ==
    /\ NothingSurvived
    /\ resources = <<>>
    /\ outcome.exit = 0

====
